---- MODULE Spec2Model ----
(***************************************************************************)
(* The CANRUG calendar scripts: events-fetcher.py (class EventsFetcher and *)
(* its main) and fetch-events.py (fetch, categorize, render, main).        *)
(*                                                                         *)
(* Text is a sequence of one-character strings.  A start/end value such as *)
(* "2024-12-02T12:00:00+12:00" is the sequence of its fixed-width fields,  *)
(* <<2, TEE, 12, PLUS, 12>>: day of month, the 'T', the hour, the sign and *)
(* the offset hour; "2024-12-02" is <<2>>, a trailing 'Z' is <<ZED>>, and  *)
(* "soon" (no date at all) is <<SOON>>.  Each field is a number ordered as *)
(* its text is ordered by code point, so Python's comparison of two such   *)
(* strings is the lexicographic comparison of the two sequences.           *)
(* Instants and wall-clock values are hours since 2024-12-00T00:00 UTC.    *)
(***************************************************************************)
EXTENDS Integers, Sequences, FiniteSets, TLC

VARIABLES script, API_KEY, CALENDAR_ID, pc, httpRequests, fetched, items, now,
          idx, upcoming, past, files, exitCode, raisedIn,
          fn, arg, ret

vars == <<script, API_KEY, CALENDAR_ID, pc, httpRequests, fetched, items, now,
          idx, upcoming, past, files, exitCode, raisedIn, fn, arg, ret>>

runVars == <<script, API_KEY, CALENDAR_ID, pc, httpRequests, fetched, items, now,
             idx, upcoming, past, files, exitCode, raisedIn>>

callVars == <<fn, arg, ret>>

(***************************************************************************)
(* Bounds of the model.                                                    *)
(***************************************************************************)
\* Most events in one provider response.
MaxItems == 2
\* Days of the month on which modelled events start.
MaxDay == 2
\* Most pieces (characters or whole \uXXXX escapes) of a description.
MaxDesc == 6
\* Most characters of a summary or location handed to the renderer.
MaxText == 2

(***************************************************************************)
(* Field codes of start/end strings, ordered as their characters are.      *)
(***************************************************************************)
PLUS == 43
MINUS == 45
TEE == 84
ZED == 90
SOON == 115

RECURSIVE Flatten(_)
Flatten(ss) == IF ss = <<>> THEN <<>> ELSE Head(ss) \o Flatten(Tail(ss))

SeqsUpTo(S, n) == UNION {[1..k -> S] : k \in 0..n}

(***************************************************************************)
(* JSON / Python values.  A dict key is absent, null (None) or a string.   *)
(***************************************************************************)
JAbsent == [t |-> "absent", v |-> <<>>]
JNull == [t |-> "null", v |-> <<>>]
JStr(s) == [t |-> "str", v |-> s]

\* dict.get(key, default): the default only when the key is absent.
Get(field, default) == IF field.t = "absent" THEN default ELSE field

\* Python truthiness of None / str.
Truthy(x) == x.t = "str" /\ x.v # <<>>

\* a or b
Or(a, b) == IF Truthy(a) THEN a ELSE b

\* The 'start' / 'end' member: absent, null, or an object with dateTime, date.
TAbsent == [t |-> "absent", dateTime |-> JAbsent, date |-> JAbsent]
TNull == [t |-> "null", dateTime |-> JAbsent, date |-> JAbsent]
TDateTime(s) == [t |-> "obj", dateTime |-> JStr(s), date |-> JAbsent]
TDate(s) == [t |-> "obj", dateTime |-> JAbsent, date |-> JStr(s)]
TDateNull == [t |-> "obj", dateTime |-> JAbsent, date |-> JNull]

(***************************************************************************)
(* str comparison, str.replace('Z', '+00:00'), 'T' in s.                   *)
(***************************************************************************)
RECURSIVE StrLess(_, _)
StrLess(a, b) ==
    IF b = <<>> THEN FALSE
    ELSE IF a = <<>> THEN TRUE
    ELSE IF Head(a) # Head(b) THEN Head(a) < Head(b)
    ELSE StrLess(Tail(a), Tail(b))

RECURSIVE ReplaceZ(_)
ReplaceZ(s) ==
    IF s = <<>> THEN <<>>
    ELSE IF Head(s) = ZED THEN <<PLUS, 0>> \o ReplaceZ(Tail(s))
    ELSE <<Head(s)>> \o ReplaceZ(Tail(s))

ContainsT(s) == \E k \in 1..Len(s) : s[k] = TEE

(***************************************************************************)
(* datetime.fromisoformat: a date alone or a date-time without offset is   *)
(* naive, a date-time with offset is aware; anything else is a ValueError. *)
(* wall is the wall-clock value, off the UTC offset.                       *)
(***************************************************************************)
ParseError == [ok |-> FALSE, aware |-> FALSE, wall |-> 0, off |-> 0]

IsDay(d) == d \in 1..31
IsHour(h) == h \in 0..23

fromisoformat(s) ==
    IF Len(s) = 1 /\ IsDay(s[1])
    THEN [ok |-> TRUE, aware |-> FALSE, wall |-> 24 * s[1], off |-> 0]
    ELSE IF Len(s) \in {3, 5} /\ IsDay(s[1]) /\ s[2] = TEE /\ IsHour(s[3])
    THEN IF Len(s) = 3
         THEN [ok |-> TRUE, aware |-> FALSE, wall |-> 24 * s[1] + s[3], off |-> 0]
         ELSE IF s[4] \in {PLUS, MINUS} /\ IsHour(s[5])
         THEN [ok |-> TRUE, aware |-> TRUE, wall |-> 24 * s[1] + s[3],
               off |-> IF s[4] = PLUS THEN s[5] ELSE 0 - s[5]]
         ELSE ParseError
    ELSE ParseError

\* The UTC instant of an aware datetime.
Instant(dt) == dt.wall - dt.off

\* datetime >= now, now aware: "ok", or "TypeError" for a naive left side.
CompareGE(dt, cutoff) ==
    IF ~dt.aware THEN "TypeError"
    ELSE IF Instant(dt) >= cutoff THEN "ge" ELSE "lt"

(***************************************************************************)
(* Text: str.replace, character classes of the re module, str.lower.       *)
(***************************************************************************)
StartsWith(s, p, pat) ==
    /\ p + Len(pat) - 1 <= Len(s)
    /\ \A k \in 1..Len(pat) : s[p + k - 1] = pat[k]

RECURSIVE ReplaceFrom(_, _, _, _)
ReplaceFrom(s, p, pat, rep) ==
    IF p > Len(s) THEN <<>>
    ELSE IF StartsWith(s, p, pat) THEN rep \o ReplaceFrom(s, p + Len(pat), pat, rep)
    ELSE <<s[p]>> \o ReplaceFrom(s, p + 1, pat, rep)

\* s.replace(pat, rep), pat not empty: leftmost matches, left to right.
Replace(s, pat, rep) == ReplaceFrom(s, 1, pat, rep)

LowerLetters == <<"a", "b", "c", "d", "e", "f", "g", "h", "i", "j", "k", "l", "m",
                  "n", "o", "p", "q", "r", "s", "t", "u", "v", "w", "x", "y", "z">>
UpperLetters == <<"A", "B", "C", "D", "E", "F", "G", "H", "I", "J", "K", "L", "M",
                  "N", "O", "P", "Q", "R", "S", "T", "U", "V", "W", "X", "Y", "Z">>
Digits == {"0", "1", "2", "3", "4", "5", "6", "7", "8", "9"}

IsLower(c) == \E k \in 1..26 : LowerLetters[k] = c
IsUpper(c) == \E k \in 1..26 : UpperLetters[k] = c
\* [a-z] under re.IGNORECASE
IsLetter(c) == IsLower(c) \/ IsUpper(c)
\* [a-z0-9] under re.IGNORECASE
IsAlnum(c) == IsLetter(c) \/ c \in Digits
\* \w, the class \b is defined by
IsWord(c) == IsAlnum(c) \/ c = "_"

LowerChar(c) == IF IsUpper(c) THEN LowerLetters[CHOOSE k \in 1..26 : UpperLetters[k] = c] ELSE c
lower(s) == [k \in 1..Len(s) |-> LowerChar(s[k])]

(***************************************************************************)
(* EventsFetcher.clean_description                                         *)
(***************************************************************************)
\* The six characters \uXXXX (a backslash, 'u', four hex digits).
Escape(h1, h2) == <<"\\", "u", "0", "0", h1, h2>>

decode(description) ==
    Replace(Replace(Replace(Replace(Replace(description,
        Escape("3", "c"), <<"<">>),
        Escape("3", "e"), <<">">>),
        Escape("2", "6"), <<"&">>),
        Escape("2", "2"), <<"\"">>),
        Escape("2", "7"), <<"'">>)

allowed_tags == {<<"a">>, <<"b", "r">>, <<"p">>, <<"s", "t", "r", "o", "n", "g">>,
                 <<"e", "m">>, <<"u", "l">>, <<"o", "l">>, <<"l", "i">>}

\* The last index of the run [a-z0-9]* that starts at q.
RECURSIVE NameEnd(_, _)
NameEnd(s, q) == IF q < Len(s) /\ IsAlnum(s[q + 1]) THEN NameEnd(s, q + 1) ELSE q

\* The first index >= r holding '>', or 0.
RECURSIVE FirstGT(_, _)
FirstGT(s, r) ==
    IF r > Len(s) THEN 0 ELSE IF s[r] = ">" THEN r ELSE FirstGT(s, r + 1)

NoTag == [m |-> FALSE, name |-> <<>>, end |-> 0]

\* The match of  </?([a-z][a-z0-9]*)\b[^>]*>  that starts at p, if any:
\* group 1 and the index of the closing '>'.
TagAt(s, p) ==
    LET q == IF p + 1 <= Len(s) /\ s[p + 1] = "/" THEN p + 2 ELSE p + 1
    IN  IF s[p] # "<" \/ q > Len(s) THEN NoTag
        ELSE IF ~IsLetter(s[q]) THEN NoTag
        ELSE LET e == NameEnd(s, q)
             IN  IF e < Len(s) /\ IsWord(s[e + 1]) THEN NoTag
                 ELSE LET r == FirstGT(s, e + 1)
                      IN  IF r = 0 THEN NoTag
                          ELSE [m |-> TRUE, name |-> SubSeq(s, q, e), end |-> r]

\* replace_tag: the whole match when the lowered name is allowed, else ''.
replace_tag(s, p, t) ==
    IF lower(t.name) \in allowed_tags THEN SubSeq(s, p, t.end) ELSE <<>>

\* re.sub over the string, from index p: matches do not overlap and the
\* replacement text is not scanned again.
RECURSIVE SubTags(_, _)
SubTags(s, p) ==
    IF p > Len(s) THEN <<>>
    ELSE LET t == TagAt(s, p)
         IN  IF t.m THEN replace_tag(s, p, t) \o SubTags(s, t.end + 1)
             ELSE <<s[p]>> \o SubTags(s, p + 1)

clean_description(description) ==
    IF ~Truthy(description) THEN <<>>
    ELSE SubTags(decode(description.v), 1)

(***************************************************************************)
(* EventsFetcher.format_event_times, make_add_to_calendar_link,            *)
(* process_event                                                           *)
(***************************************************************************)
\* event.get(k, {}).get('dateTime') or event.get(k, {}).get('date', '')
\* for k = 'start', 'end'; a null member makes .get raise AttributeError.
ExtractRaises(t) == t.t = "null"

ExtractTime(t) ==
    IF t.t = "absent" THEN JStr(<<>>)
    ELSE Or(Get(t.dateTime, JNull), Get(t.date, JStr(<<>>)))

\* fromisoformat(x.replace('Z', '+00:00')) inside a try: any exception,
\* that of None.replace included, is a failure to parse.
TryParse(x) == IF x.t # "str" THEN ParseError ELSE fromisoformat(ReplaceZ(x.v))

\* strftime reads the wall-clock fields of the datetime, whatever its offset.
WallDay(dt) == dt.wall \div 24
WallHour(dt) == dt.wall % 24

format_event_times(start_str, end_str) ==
    LET start == TryParse(start_str)
        end == TryParse(end_str)
    IN  IF start.ok /\ end.ok
        THEN [formatted |-> TRUE,
              text |-> <<WallDay(start), WallHour(start), WallHour(end)>>]
        ELSE [formatted |-> FALSE, text |-> <<>>]

\* urllib.parse.quote(None) raises TypeError.
QuoteRaises(x) == x.t = "null"

\* '%Y%m%dT%H%M%SZ'
CompactZulu(dt) == <<WallDay(dt), TEE, WallHour(dt), ZED>>

make_add_to_calendar_link(event) ==
    IF Truthy(event.htmlLink)
    THEN [raised |-> FALSE, kind |-> "htmlLink", dates |-> <<>>]
    ELSE IF \/ QuoteRaises(Get(event.summary, JStr(<<"Event">>)))
            \/ QuoteRaises(Get(event.description, JStr(<<>>)))
            \/ QuoteRaises(Get(event.location, JStr(<<>>)))
    THEN [raised |-> TRUE, kind |-> "TypeError", dates |-> <<>>]
    ELSE LET start_dt == TryParse(ExtractTime(event.start))
             end_dt == TryParse(ExtractTime(event.end))
         IN  IF start_dt.ok /\ end_dt.ok
             THEN [raised |-> FALSE, kind |-> "template",
                   dates |-> <<CompactZulu(start_dt), CompactZulu(end_dt)>>]
             ELSE [raised |-> FALSE, kind |-> "title", dates |-> <<>>]

NoRecord == [id |-> 0]

process_event(event) ==
    IF ExtractRaises(event.start) \/ ExtractRaises(event.end)
    THEN [raised |-> TRUE, exc |-> "AttributeError", value |-> NoRecord]
    ELSE LET start == ExtractTime(event.start)
             end == ExtractTime(event.end)
             link == make_add_to_calendar_link(event)
         IN  IF link.raised
             THEN [raised |-> TRUE, exc |-> link.kind, value |-> NoRecord]
             ELSE [raised |-> FALSE, exc |-> "",
                   value |-> [id |-> event.id,
                              summary |-> Get(event.summary, JStr(<<"Untitled Event">>)),
                              start |-> start,
                              end |-> end,
                              when |-> format_event_times(start, end),
                              description |-> clean_description(Get(event.description, JNull)),
                              htmlLink |-> link,
                              location |-> Get(event.location, JStr(<<>>))]]

(***************************************************************************)
(* fetch-events.py: escape_html, generate_event_html                       *)
(***************************************************************************)
\* text.replace('&', '&amp;').replace('<', '&lt;').replace('>', '&gt;')
\*     .replace('"', '&quot;').replace("'", '&#39;')
escape_html(text) ==
    Replace(Replace(Replace(Replace(Replace(text,
        <<"&">>, <<"&", "a", "m", "p", ";">>),
        <<"<">>, <<"&", "l", "t", ";">>),
        <<">">>, <<"&", "g", "t", ";">>),
        <<"\"">>, <<"&", "q", "u", "o", "t", ";">>),
        <<"'">>, <<"&", "#", "3", "9", ";">>)

\* The text of one field of a start/end string.
FieldText(c) ==
    CASE c = TEE -> "T"
      [] c = ZED -> "Z"
      [] c = PLUS -> "+"
      [] c = MINUS -> "-"
      [] c = SOON -> "soon"
      [] OTHER -> ToString(c)

RawText(s) == [k \in 1..Len(s) |-> FieldText(s[k])]

\* start.get('dateTime') or start.get('date')
StartStr(t) ==
    IF t.t = "absent" THEN JNull
    ELSE Or(Get(t.dateTime, JNull), Get(t.date, JNull))

\* The lines of the "if start_dt and end_dt:" block.  The pieces of a
\* template are whole strings; interpolated text is character by character.
TimeLines(start_dt, end_dt) ==
    IF ~(Truthy(start_dt) /\ Truthy(end_dt)) THEN <<>>
    ELSE IF ContainsT(start_dt.v)
    THEN LET start_obj == fromisoformat(ReplaceZ(start_dt.v))
             end_obj == fromisoformat(ReplaceZ(end_dt.v))
         IN  IF start_obj.ok /\ end_obj.ok
             THEN <<"    <p><strong>Date:</strong> ", ToString(WallDay(start_obj)), "</p>\n",
                    "    <p><strong>Time:</strong> ", ToString(WallHour(start_obj)), " - ",
                    ToString(WallHour(end_obj)), " (tz)</p>\n",
                    "    <p><strong>Your Local Time:</strong> <span class=\"js-local-time\" data-start=\"">>
                  \o RawText(start_dt.v) \o <<"\" data-end=\"">> \o RawText(end_dt.v)
                  \o <<"\">Loading...</span></p>\n">>
             ELSE <<"    <p><strong>Time:</strong> ">> \o RawText(start_dt.v) \o <<"</p>\n">>
    ELSE LET date_obj == fromisoformat(start_dt.v)
         IN  IF date_obj.ok
             THEN <<"    <p><strong>Date:</strong> ", ToString(WallDay(date_obj)), " (All day)</p>\n">>
             ELSE <<"    <p><strong>Time:</strong> ">> \o RawText(start_dt.v) \o <<"</p>\n">>

TitleLine(summary) == <<"    <h3>">> \o escape_html(summary.v) \o <<"</h3>\n">>

LocationLine(location) ==
    IF ~Truthy(location) THEN <<>>
    ELSE <<"    <p><strong>Location:</strong> ">> \o escape_html(location.v) \o <<"</p>\n">>

DescriptionLine(description) ==
    IF ~Truthy(description) THEN <<>>
    ELSE <<"    <div class=\"event-description\">">>
         \o Replace(escape_html(description.v), <<"\n">>, <<"<br>">>)
         \o <<"</div>\n">>

\* A null start or end makes .get raise, a null summary makes escape_html
\* raise (AttributeError, both).
generate_event_html(event) ==
    LET summary == Get(event.summary, JStr(<<"Untitled Event">>))
        description == Get(event.description, JStr(<<>>))
        location == Get(event.location, JStr(<<>>))
    IN  IF event.start.t = "null" \/ event.end.t = "null" \/ summary.t = "null"
        THEN [raised |-> TRUE, html |-> <<>>]
        ELSE [raised |-> FALSE,
              html |-> <<"<article class=\"event-card\">\n">>
                       \o TitleLine(summary)
                       \o TimeLines(StartStr(event.start), StartStr(event.end))
                       \o LocationLine(location)
                       \o DescriptionLine(description)
                       \o <<"</article>\n">>]

(***************************************************************************)
(* list.sort(key=lambda x: x['start'], reverse=...): stable, also when     *)
(* reversed; comparing None with anything raises TypeError.                *)
(***************************************************************************)
KeyBefore(a, b, reverse) == IF reverse THEN StrLess(b, a) ELSE StrLess(a, b)

RECURSIVE Insert(_, _, _)
Insert(sorted, x, reverse) ==
    IF sorted = <<>> THEN <<x>>
    ELSE IF KeyBefore(x.start.v, Head(sorted).start.v, reverse) THEN <<x>> \o sorted
    ELSE <<Head(sorted)>> \o Insert(Tail(sorted), x, reverse)

RECURSIVE sort(_, _)
sort(list, reverse) ==
    IF Len(list) <= 1 THEN list
    ELSE Insert(sort(SubSeq(list, 1, Len(list) - 1), reverse), list[Len(list)], reverse)

SortRaises(list) == Len(list) >= 2 /\ \E k \in 1..Len(list) : list[k].start.t # "str"

\* list.reverse()
RECURSIVE reverse(_)
reverse(list) == IF list = <<>> THEN <<>> ELSE reverse(Tail(list)) \o <<Head(list)>>

(***************************************************************************)
(* What the provider may return: events of the calendar API.               *)
(***************************************************************************)
\* Per day one start at 00:00 UTC and one at 06:00 in the zone +12:00, which
\* is 18:00 UTC of the day before: later as text, earlier as an instant.
DateTimeStrings ==
    {<<d, TEE, 0, ZED>> : d \in 1..MaxDay}
    \cup {<<d, TEE, 6, PLUS, 12>> : d \in 1..MaxDay}

DateStrings == {<<d>> : d \in 1..MaxDay}

TimeFields ==
    {TAbsent, TDateNull, TDateTime(<<SOON>>)}
    \cup {TDateTime(s) : s \in DateTimeStrings}
    \cup {TDate(s) : s \in DateStrings}

WellFormed(t) ==
    [summary |-> JStr(<<"x">>), description |-> JStr(<<"<", "p", ">">>),
     location |-> JStr(<<"y">>), start |-> t, end |-> t, htmlLink |-> JAbsent]

Sample == WellFormed(TDateTime(<<1, TEE, 0, ZED>>))

Malformed ==
    {[Sample EXCEPT !.start = TNull],
     [Sample EXCEPT !.end = TNull],
     [Sample EXCEPT !.summary = JNull],
     [Sample EXCEPT !.summary = JNull, !.htmlLink = JStr(<<"h">>)]}

RawEvents == {WellFormed(t) : t \in TimeFields} \cup Malformed

\* The event at position k of the response; id is its place in fetch order.
WithId(e, k) ==
    [id |-> k, summary |-> e.summary, description |-> e.description,
     location |-> e.location, start |-> e.start, end |-> e.end, htmlLink |-> e.htmlLink]

Responses ==
    UNION {{[k \in 1..n |-> WithId(f[k], k)] : f \in [1..n -> RawEvents]} : n \in 0..MaxItems}

\* datetime.now(timezone.utc)
NowValues == {24, 48}

FileNames == {"events.json", "events-upcoming.html", "events-past.html"}

NoFile == [written |-> FALSE, events |-> <<>>, text |-> <<>>]

Ids(list) == [k \in 1..Len(list) |-> list[k].id]

(***************************************************************************)
(* The run of one script.                                                  *)
(***************************************************************************)
RunInit ==
    /\ script \in {"events-fetcher", "fetch-events"}
    /\ \/ /\ script = "events-fetcher"
          /\ API_KEY \in {"None", "", "key"}
          /\ CALENDAR_ID = "canrugroup@gmail.com"
       \/ /\ script = "fetch-events"
          /\ API_KEY \in {"", "key"}
          /\ CALENDAR_ID \in {"", "cal"}
    /\ pc = "start"
    /\ httpRequests = 0
    /\ fetched = FALSE
    /\ items = <<>>
    /\ now = 0
    /\ idx = 0
    /\ upcoming = <<>>
    /\ past = <<>>
    /\ files = [f \in FileNames |-> NoFile]
    /\ exitCode = -1
    /\ raisedIn = ""

NoCall == fn = "" /\ arg = <<>> /\ ret = <<>>

Init == RunInit /\ NoCall

\* Falsy as "is None": an empty string passes the check.
FalsyNoneOnly(x) == x = "None"

\* not x, for a configuration value
Falsy(x) == x \in {"None", ""}

\* exit(code) / sys.exit(code) / an exception that ends the process
Exit(code, where) ==
    /\ pc' = "exited"
    /\ exitCode' = code
    /\ raisedIn' = where

\* EventsFetcher.__init__, called first by main
EF_Construct ==
    /\ script = "events-fetcher" /\ pc = "start"
    /\ IF Falsy(API_KEY) THEN Exit(1, "__init__")
       ELSE pc' = "fetch" /\ UNCHANGED <<exitCode, raisedIn>>
    /\ UNCHANGED <<callVars, script, API_KEY, CALENDAR_ID, httpRequests, fetched, items, now,
                   idx, upcoming, past, files>>

\* fetch_events up to the loop: the request, the status check, now
EF_Request ==
    /\ script = "events-fetcher" /\ pc = "fetch"
    /\ httpRequests' = httpRequests + 1
    /\ \E outcome \in {"ok", "http_error", "network_error"} :
         IF outcome = "ok"
         THEN /\ fetched' = TRUE
              /\ items' \in Responses
              /\ now' \in NowValues
              /\ idx' = 1
              /\ pc' = "loop"
              /\ UNCHANGED <<exitCode, raisedIn>>
         ELSE /\ Exit(1, outcome)
              /\ UNCHANGED <<fetched, items, now, idx>>
    /\ UNCHANGED <<callVars, script, API_KEY, CALENDAR_ID, upcoming, past, files>>

\* Bucket with an except branch that only logs: the event is in no list.
BucketDropsUnparsed(start, cutoff) ==
    LET start_dt == TryParse(start)
        cmp == IF start_dt.ok THEN CompareGE(start_dt, cutoff) ELSE "ValueError"
    IN  IF cmp = "lt" THEN "past" ELSE IF cmp = "ge" THEN "upcoming" ELSE "dropped"

\* The try/except of the loop body: "past" when the start parses and is
\* before now, "upcoming" otherwise (every exception included).
Bucket(start, cutoff) ==
    LET start_dt == TryParse(start)
        cmp == IF start_dt.ok THEN CompareGE(start_dt, cutoff) ELSE "ValueError"
    IN  IF cmp = "lt" THEN "past" ELSE "upcoming"

\* One iteration of "for event in events"
EF_Loop ==
    /\ script = "events-fetcher" /\ pc = "loop" /\ idx <= Len(items)
    /\ LET processed_event == process_event(items[idx])
       IN  IF processed_event.raised
           THEN /\ Exit(1, "process_event")
                /\ UNCHANGED <<idx, upcoming, past>>
           ELSE LET bucket == Bucket(processed_event.value.start, now)
                IN  /\ upcoming' = IF bucket = "upcoming"
                                   THEN Append(upcoming, processed_event.value)
                                   ELSE upcoming
                    /\ past' = IF bucket = "past"
                               THEN Append(past, processed_event.value)
                               ELSE past
                    /\ idx' = idx + 1
                    /\ UNCHANGED <<pc, exitCode, raisedIn>>
    /\ UNCHANGED <<callVars, script, API_KEY, CALENDAR_ID, httpRequests, fetched, items, now, files>>

\* After the loop: the two sorts, and fetch_events returns
EF_Sort ==
    /\ script = "events-fetcher" /\ pc = "loop" /\ idx > Len(items)
    /\ IF SortRaises(past) \/ SortRaises(upcoming)
       THEN /\ Exit(1, "sort")
            /\ UNCHANGED <<upcoming, past>>
       ELSE /\ past' = sort(past, TRUE)
            /\ upcoming' = sort(upcoming, FALSE)
            /\ pc' = "save"
            /\ UNCHANGED <<exitCode, raisedIn>>
    /\ UNCHANGED <<callVars, script, API_KEY, CALENDAR_ID, httpRequests, fetched, items, now, idx, files>>

\* save_events, and main returns
EF_Save ==
    /\ script = "events-fetcher" /\ pc = "save"
    /\ files' = [files EXCEPT !["events.json"] =
                    [written |-> TRUE, events |-> Ids(upcoming) \o Ids(past), text |-> <<>>]]
    /\ Exit(0, "")
    /\ UNCHANGED <<callVars, script, API_KEY, CALENDAR_ID, httpRequests, fetched, items, now,
                   idx, upcoming, past>>

\* fetch_calendar_events: the configuration check
FE_CheckConfig ==
    /\ script = "fetch-events" /\ pc = "start"
    /\ IF Falsy(API_KEY) \/ Falsy(CALENDAR_ID) THEN Exit(1, "config")
       ELSE pc' = "fetch" /\ UNCHANGED <<exitCode, raisedIn>>
    /\ UNCHANGED <<callVars, script, API_KEY, CALENDAR_ID, httpRequests, fetched, items, now,
                   idx, upcoming, past, files>>

\* FE_Request with except branches that do not exit: the function returns
\* None and main goes on.
FE_RequestKeepsGoing ==
    /\ script = "fetch-events" /\ pc = "fetch"
    /\ httpRequests' = httpRequests + 1
    /\ \E outcome \in {"ok", "http_error", "network_error"} :
         IF outcome = "ok"
         THEN /\ fetched' = TRUE
              /\ items' \in Responses
              /\ pc' = "save_json"
              /\ UNCHANGED <<exitCode, raisedIn>>
         ELSE /\ pc' = "save_json"
              /\ UNCHANGED <<fetched, items, exitCode, raisedIn>>
    /\ UNCHANGED <<callVars, script, API_KEY, CALENDAR_ID, now, idx, upcoming, past, files>>

\* fetch_calendar_events: urlopen, read, json.loads
FE_Request ==
    /\ script = "fetch-events" /\ pc = "fetch"
    /\ httpRequests' = httpRequests + 1
    /\ \E outcome \in {"ok", "http_error", "network_error"} :
         IF outcome = "ok"
         THEN /\ fetched' = TRUE
              /\ items' \in Responses
              /\ pc' = "save_json"
              /\ UNCHANGED <<exitCode, raisedIn>>
         ELSE /\ Exit(1, outcome)
              /\ UNCHANGED <<fetched, items>>
    /\ UNCHANGED <<callVars, script, API_KEY, CALENDAR_ID, now, idx, upcoming, past, files>>

\* save_events_json
FE_SaveJson ==
    /\ script = "fetch-events" /\ pc = "save_json"
    /\ files' = [files EXCEPT !["events.json"] =
                    [written |-> TRUE, events |-> Ids(items), text |-> <<>>]]
    /\ pc' = "categorize"
    /\ UNCHANGED <<callVars, script, API_KEY, CALENDAR_ID, httpRequests, fetched, items, now,
                   idx, upcoming, past, exitCode, raisedIn>>

\* categorize_events before its loop
FE_Now ==
    /\ script = "fetch-events" /\ pc = "categorize"
    /\ now' \in NowValues
    /\ idx' = 1
    /\ pc' = "loop"
    /\ UNCHANGED <<callVars, script, API_KEY, CALENDAR_ID, httpRequests, fetched, items,
                   upcoming, past, files, exitCode, raisedIn>>

\* What one iteration of categorize_events does with an event whose start
\* member is not null: "upcoming", "past", or "dropped" (the continue, and
\* the except branch, which only prints).
Categorize(event, cutoff) ==
    LET start_str == StartStr(event.start)
    IN  IF ~Truthy(start_str) THEN "dropped"
        ELSE LET event_dt == IF ContainsT(start_str.v)
                             THEN fromisoformat(ReplaceZ(start_str.v))
                             ELSE fromisoformat(start_str.v \o <<TEE, 0, PLUS, 0>>)
             IN  IF ~event_dt.ok THEN "dropped"
                 ELSE LET cmp == CompareGE(event_dt, cutoff)
                      IN  IF cmp = "ge" THEN "upcoming"
                          ELSE IF cmp = "lt" THEN "past"
                          ELSE "dropped"

\* One iteration of "for event in events_data.get('items', [])"
FE_Loop ==
    /\ script = "fetch-events" /\ pc = "loop" /\ idx <= Len(items)
    /\ LET event == items[idx]
       IN  IF event.start.t = "null"
           THEN /\ Exit(1, "categorize_events")
                /\ UNCHANGED <<idx, upcoming, past>>
           ELSE LET bucket == Categorize(event, now)
                IN  /\ upcoming' = IF bucket = "upcoming" THEN Append(upcoming, event)
                                   ELSE upcoming
                    /\ past' = IF bucket = "past" THEN Append(past, event) ELSE past
                    /\ idx' = idx + 1
                    /\ UNCHANGED <<pc, exitCode, raisedIn>>
    /\ UNCHANGED <<callVars, script, API_KEY, CALENDAR_ID, httpRequests, fetched, items, now, files>>

\* categorize_events returns
FE_Return ==
    /\ script = "fetch-events" /\ pc = "loop" /\ idx > Len(items)
    /\ pc' = "html"
    /\ UNCHANGED <<callVars, script, API_KEY, CALENDAR_ID, httpRequests, fetched, items, now,
                   idx, upcoming, past, files, exitCode, raisedIn>>

\* ''.join(generate_event_html(event) for event in list)
RenderRaises(list) == \E k \in 1..Len(list) : generate_event_html(list[k]).raised

RenderAll(list) == Flatten([k \in 1..Len(list) |-> generate_event_html(list[k]).html])

\* generate_html_includes, and main returns.  The result: the files, the
\* past list (reversed in place when not empty) and whether a render raised.
generate_html_includes(up, pa, fs) ==
    IF RenderRaises(up) THEN [raised |-> TRUE, files |-> fs, past |-> pa]
    ELSE LET upcoming_html == IF up # <<>> THEN RenderAll(up)
                              ELSE <<"<p>No upcoming events at this time. Check back soon!</p>\n">>
             fs1 == [fs EXCEPT !["events-upcoming.html"] =
                        [written |-> TRUE, events |-> Ids(up), text |-> upcoming_html]]
             pa1 == IF pa # <<>> THEN reverse(pa) ELSE pa
         IN  IF RenderRaises(pa1) THEN [raised |-> TRUE, files |-> fs1, past |-> pa1]
             ELSE LET past_html == IF pa # <<>> THEN RenderAll(pa1)
                                   ELSE <<"<p>No past events recorded.</p>\n">>
                  IN  [raised |-> FALSE,
                       files |-> [fs1 EXCEPT !["events-past.html"] =
                                     [written |-> TRUE, events |-> Ids(pa1), text |-> past_html]],
                       past |-> pa1]

FE_GenerateIncludes ==
    /\ script = "fetch-events" /\ pc = "html"
    /\ LET r == generate_html_includes(upcoming, past, files)
       IN  /\ files' = r.files
           /\ past' = r.past
           /\ IF r.raised THEN Exit(1, "generate_event_html") ELSE Exit(0, "")
    /\ UNCHANGED <<callVars, script, API_KEY, CALENDAR_ID, httpRequests, fetched, items, now,
                   idx, upcoming>>

Next ==
    \/ EF_Construct
    \/ EF_Request
    \/ EF_Loop
    \/ EF_Sort
    \/ EF_Save
    \/ FE_CheckConfig
    \/ FE_Request
    \/ FE_SaveJson
    \/ FE_Now
    \/ FE_Loop
    \/ FE_Return
    \/ FE_GenerateIncludes

Spec == Init /\ [][Next]_vars

(***************************************************************************)
(* clean_description applied to one description.                           *)
(***************************************************************************)
RunIdle ==
    /\ script = "" /\ API_KEY = "" /\ CALENDAR_ID = "" /\ pc = "idle"
    /\ httpRequests = 0 /\ fetched = FALSE /\ items = <<>> /\ now = 0 /\ idx = 0
    /\ upcoming = <<>> /\ past = <<>> /\ files = [f \in FileNames |-> NoFile]
    /\ exitCode = -1 /\ raisedIn = ""

\* What descriptions are made of: the characters of tags, a tag name that is
\* allowed (a), one that is not (S, upper case), and an escaped '<'.
DescPieces == {<<"<">>, <<">">>, <<"/">>, <<"a">>, <<"S">>, Escape("3", "c")}

Descriptions ==
    {JNull} \cup {JStr(Flatten(ps)) : ps \in SeqsUpTo(DescPieces, MaxDesc)}

NotDone == [done |-> FALSE, value |-> <<>>]

CleanInit ==
    /\ RunIdle
    /\ fn = "clean_description"
    /\ arg \in Descriptions
    /\ ret = NotDone

CleanCall ==
    /\ fn = "clean_description" /\ ~ret.done
    /\ ret' = [done |-> TRUE, value |-> clean_description(arg)]
    /\ UNCHANGED <<runVars, fn, arg>>

CleanNext == CleanCall

SpecClean == CleanInit /\ [][CleanNext]_vars

(***************************************************************************)
(* generate_event_html applied to one event.                               *)
(***************************************************************************)
\* The five characters escape_html replaces, a newline, and a plain one.
TextChars == {"&", "<", ">", "\"", "'", "\n", "x"}

Texts(n) == {JStr(t) : t \in SeqsUpTo(TextChars, n)}

RenderTimes ==
    {TAbsent, TDate(<<1>>), TDateTime(<<1, TEE, 0, ZED>>), TDateTime(<<SOON>>)}

RenderEvents ==
    {[id |-> 1, summary |-> su, description |-> de, location |-> lo,
      start |-> st, end |-> st, htmlLink |-> JAbsent] :
        su \in Texts(MaxText) \cup {JAbsent, JNull},
        de \in Texts(1) \cup {JStr(<<"<", "a", ">", "\n">>), JAbsent, JNull},
        lo \in Texts(1) \cup {JAbsent, JNull},
        st \in RenderTimes}

RenderInit ==
    /\ RunIdle
    /\ fn = "generate_event_html"
    /\ arg \in RenderEvents
    /\ ret = NotDone

RenderCall ==
    /\ fn = "generate_event_html" /\ ~ret.done
    /\ ret' = [done |-> TRUE, value |-> generate_event_html(arg)]
    /\ UNCHANGED <<runVars, fn, arg>>

RenderNext == RenderCall

SpecRender == RenderInit /\ [][RenderNext]_vars

(***************************************************************************)
(* make_add_to_calendar_link applied to one event.                         *)
(***************************************************************************)
\* Start and end values of every kind: UTC, east and west of UTC, all-day,
\* unparseable, absent.
LinkTimes ==
    {TDateTime(<<d, TEE, 10, ZED>>) : d \in 1..MaxDay}
    \cup {TDateTime(<<d, TEE, 10, PLUS, 5>>) : d \in 1..MaxDay}
    \cup {TDateTime(<<d, TEE, 2, MINUS, 5>>) : d \in 1..MaxDay}
    \cup {TDate(<<1>>), TDateTime(<<SOON>>), TAbsent}

LinkEvents ==
    {[id |-> 1, summary |-> JStr(<<"x">>), description |-> JAbsent, location |-> JAbsent,
      start |-> st, end |-> en, htmlLink |-> li] :
        st \in LinkTimes, en \in LinkTimes, li \in {JAbsent, JStr(<<"h">>)}}

LinkInit ==
    /\ RunIdle
    /\ fn = "make_add_to_calendar_link"
    /\ arg \in LinkEvents
    /\ ret = NotDone

LinkCall ==
    /\ fn = "make_add_to_calendar_link" /\ ~ret.done
    /\ ret' = [done |-> TRUE, value |-> make_add_to_calendar_link(arg)]
    /\ UNCHANGED <<runVars, fn, arg>>

LinkNext == LinkCall

SpecLink == LinkInit /\ [][LinkNext]_vars

(***************************************************************************)
(* generate_html_includes called on the same two list objects, once and    *)
(* again.  upcoming and past are the lists the caller holds; arg keeps     *)
(* what they were before the first call.                                   *)
(***************************************************************************)
MaxCalls == 2

\* Events that render differently from one another, and one whose
\* rendering raises.
IncludeEvents ==
    {WithId(e, k) : e \in {WellFormed(TDateTime(<<d, TEE, 0, ZED>>)) : d \in 1..MaxDay}
                          \cup {[Sample EXCEPT !.summary = JNull]},
                    k \in 1..MaxItems}

IncludesInit ==
    /\ script = "" /\ API_KEY = "" /\ CALENDAR_ID = "" /\ pc = "idle"
    /\ httpRequests = 0 /\ fetched = FALSE /\ items = <<>> /\ now = 0 /\ idx = 0
    /\ upcoming \in SeqsUpTo(IncludeEvents, 1)
    /\ past \in SeqsUpTo(IncludeEvents, MaxItems)
    /\ files = [f \in FileNames |-> NoFile]
    /\ exitCode = -1 /\ raisedIn = ""
    /\ fn = "generate_html_includes"
    /\ arg = [upcoming |-> upcoming, past |-> past]
    /\ ret = NotDone

IncludesCall ==
    /\ fn = "generate_html_includes" /\ Len(ret.value) < MaxCalls
    /\ LET r == generate_html_includes(upcoming, past, files)
       IN  /\ files' = r.files
           /\ past' = r.past
           /\ ret' = [done |-> TRUE,
                      value |-> Append(ret.value,
                                       [raised |-> r.raised,
                                        past_html |-> r.files["events-past.html"].text])]
    /\ UNCHANGED <<script, API_KEY, CALENDAR_ID, pc, httpRequests, fetched, items, now, idx,
                   upcoming, exitCode, raisedIn, fn, arg>>

IncludesNext == IncludesCall

SpecIncludes == IncludesInit /\ [][IncludesNext]_vars

(***************************************************************************)
(* build-local.py: process_includes.                                       *)
(* The pattern is {%\s*include\s+([^\s%}]+)\s*%}.  Each of its pieces can  *)
(* match in one way only (a name holds no white space, no % and no }), so  *)
(* the match at a position is found left to right without backtracking.    *)
(***************************************************************************)
MaxPage == 2

IsSpace(c) == c \in {" ", "\t", "\n"}

IsNameChar(c) == ~IsSpace(c) /\ c \notin {"%", "}"}

\* The first index from p on that holds no white space (Len(s) + 1 if none).
RECURSIVE SkipSpaces(_, _)
SkipSpaces(s, p) ==
    IF p <= Len(s) /\ IsSpace(s[p]) THEN SkipSpaces(s, p + 1) ELSE p

\* The first index from p on that holds no character of a name.
RECURSIVE NameStop(_, _)
NameStop(s, p) ==
    IF p <= Len(s) /\ IsNameChar(s[p]) THEN NameStop(s, p + 1) ELSE p

IncludeAt(s, p) ==
    LET word == SkipSpaces(s, p + 2)
        gap == word + 7
        first == SkipSpaces(s, gap)
        stop == NameStop(s, first)
        close == SkipSpaces(s, stop)
    IN  IF /\ StartsWith(s, p, <<"{", "%">>)
           /\ StartsWith(s, word, <<"i", "n", "c", "l", "u", "d", "e">>)
           /\ first > gap
           /\ stop > first
           /\ StartsWith(s, close, <<"%", "}">>)
        THEN [m |-> TRUE, filename |-> SubSeq(s, first, stop - 1), end |-> close + 1]
        ELSE [m |-> FALSE, filename |-> <<>>, end |-> p]

\* What is at a path under base_path: nothing, a file, or a directory.
Missing == [kind |-> "missing", content |-> <<>>]
File(text) == [kind |-> "file", content |-> text]
Dir == [kind |-> "dir", content |-> <<>>]

Lookup(fs, filename) == IF filename \in DOMAIN fs THEN fs[filename] ELSE Missing

\* open(filepath) and f.read(): FileNotFoundError is caught and gives the
\* marker; the IsADirectoryError of a path that is a directory is not.
replace_include(filename, fs) ==
    LET entry == Lookup(fs, filename)
    IN  IF entry.kind = "file" THEN [raised |-> FALSE, text |-> entry.content]
        ELSE IF entry.kind = "missing"
        THEN [raised |-> FALSE,
              text |-> <<"<!-- Include file not found: ">> \o filename \o <<" -->">>]
        ELSE [raised |-> TRUE, text |-> <<>>]

\* re.sub(pattern, replace_include, html_content) from index p on: the
\* matches do not overlap and what a replacement returns is not read again.
RECURSIVE SubIncludes(_, _, _)
SubIncludes(s, p, fs) ==
    IF p > Len(s) THEN [raised |-> FALSE, value |-> <<>>]
    ELSE LET match == IncludeAt(s, p)
         IN  IF match.m
             THEN LET r == replace_include(match.filename, fs)
                      rest == SubIncludes(s, match.end + 1, fs)
                  IN  IF r.raised \/ rest.raised THEN [raised |-> TRUE, value |-> <<>>]
                      ELSE [raised |-> FALSE, value |-> r.text \o rest.value]
             ELSE LET rest == SubIncludes(s, p + 1, fs)
                  IN  IF rest.raised THEN rest
                      ELSE [raised |-> FALSE, value |-> <<s[p]>> \o rest.value]

process_includes(html_content, fs) == SubIncludes(html_content, 1, fs)

(***************************************************************************)
(* process_includes applied to one page and one _includes directory.       *)
(***************************************************************************)
Directive(name) ==
    <<"{", "%", " ", "i", "n", "c", "l", "u", "d", "e", " ">> \o name \o <<" ", "%", "}">>

TightDirective(name) ==
    <<"{", "%", "i", "n", "c", "l", "u", "d", "e", "\t">> \o name \o <<"%", "}">>

IncludeNames == {<<"a">>, <<"b">>, <<".">>}

\* What pages are made of: directives, plain text, and a directive without
\* a name, which the pattern does not match.
PageChunks ==
    {Directive(n) : n \in IncludeNames}
    \cup {TightDirective(<<"a">>), <<"x">>,
          <<"{", "%", " ", "i", "n", "c", "l", "u", "d", "e", " ", "%", "}">>}

\* _includes: a is missing, a partial, a partial that holds a directive, or
\* a folder of partials; b is missing or a partial; "." is _includes
\* itself, which is there whenever something is in it.
IncludeDirs ==
    {fs \in [IncludeNames -> {Missing, Dir, File(<<"y">>), File(<<"z">>),
                              File(Directive(<<"b">>))}] :
        /\ fs[<<"b">>] \in {Missing, File(<<"z">>)}
        /\ fs[<<"a">>] # File(<<"z">>)
        /\ fs[<<".">>] \in {Missing, Dir}
        /\ (fs[<<"a">>] # Missing \/ fs[<<"b">>] # Missing) => fs[<<".">>] = Dir}

PagesInit ==
    /\ RunIdle
    /\ fn = "process_includes"
    /\ arg \in {[chunks |-> cs, fs |-> fs] :
                    cs \in SeqsUpTo(PageChunks, MaxPage), fs \in IncludeDirs}
    /\ ret = NotDone

PagesCall ==
    /\ fn = "process_includes" /\ ~ret.done
    /\ ret' = [done |-> TRUE, value |-> process_includes(Flatten(arg.chunks), arg.fs)]
    /\ UNCHANGED <<runVars, fn, arg>>

PagesNext == PagesCall

SpecPages == PagesInit /\ [][PagesNext]_vars

(***************************************************************************)
(* Properties.  What a property calls the start of an item, a valid        *)
(* ISO-8601 value and its instant are stated here on the provider's data,  *)
(* apart from the operators the scripts compute with.                      *)
(***************************************************************************)
ItemStart(e) ==
    IF e.start.t = "obj" /\ e.start.dateTime.t = "str" THEN e.start.dateTime
    ELSE IF e.start.t = "obj" /\ e.start.date.t = "str" THEN e.start.date
    ELSE JNull

IsISODate(s) == Len(s) = 1 /\ IsDay(s[1])

IsISODateTime(s) ==
    /\ Len(s) \in {4, 5} /\ IsDay(s[1]) /\ s[2] = TEE /\ IsHour(s[3])
    /\ \/ Len(s) = 4 /\ s[4] = ZED
       \/ Len(s) = 5 /\ s[4] \in {PLUS, MINUS} /\ IsHour(s[5])

HasValidStart(e) ==
    ItemStart(e).t = "str" /\ (IsISODate(ItemStart(e).v) \/ IsISODateTime(ItemStart(e).v))

\* The UTC instant of a valid start; an all-day date starts at 00:00 UTC.
StartInstant(e) ==
    LET s == ItemStart(e).v
    IN  IF IsISODate(s) THEN 24 * s[1]
        ELSE IF Len(s) = 4 THEN 24 * s[1] + s[3]
        ELSE IF s[4] = PLUS THEN 24 * s[1] + s[3] - s[5]
        ELSE 24 * s[1] + s[3] + s[5]

Occurrences(ids, id) == Cardinality({k \in 1..Len(ids) : ids[k] = id})

InExactlyOne(id) == Occurrences(Ids(upcoming), id) + Occurrences(Ids(past), id) = 1

\* fetch_events (events-fetcher.py) has returned its two lists.
FetchEventsReturned ==
    script = "events-fetcher" /\ (pc = "save" \/ (pc = "exited" /\ exitCode = 0))

\* categorize_events (fetch-events.py) has returned its two lists.
CategorizeReturned == script = "fetch-events" /\ pc = "html"

\* fetch-events.py has written both fragments.
FragmentsWritten == script = "fetch-events" /\ pc = "exited" /\ exitCode = 0

NonDecreasing(ids) ==
    \A a, b \in 1..Len(ids) :
        (a < b /\ HasValidStart(items[ids[a]]) /\ HasValidStart(items[ids[b]]))
            => StartInstant(items[ids[a]]) <= StartInstant(items[ids[b]])

NonIncreasing(ids) ==
    \A a, b \in 1..Len(ids) :
        (a < b /\ HasValidStart(items[ids[a]]) /\ HasValidStart(items[ids[b]]))
            => StartInstant(items[ids[a]]) >= StartInstant(items[ids[b]])

\* Events with equal start keys are in fetch order.
TiesInFetchOrder(ids) ==
    \A a, b \in 1..Len(ids) :
        (a < b /\ ItemStart(items[ids[a]]) = ItemStart(items[ids[b]])) => ids[a] < ids[b]

NothingWritten == \A f \in FileNames : ~files[f].written

C2_NeverDrops ==
    CategorizeReturned
        => \A k \in 1..Len(items) :
               /\ InExactlyOne(k)
               /\ ~HasValidStart(items[k]) => Occurrences(Ids(upcoming), k) = 1

(* C3: in both scripts, when the lists are returned, every item with a     *)
(* valid ISO-8601 start (date-time with offset or Z, or a date) is in past *)
(* when its instant is before now and in upcoming when it is at or after   *)
(* now; a date counts from 00:00 UTC.                                      *)
C3_Classification ==
    (FetchEventsReturned \/ CategorizeReturned)
        => \A k \in 1..Len(items) :
               HasValidStart(items[k])
                   => IF StartInstant(items[k]) < now
                      THEN Occurrences(Ids(past), k) = 1
                      ELSE Occurrences(Ids(upcoming), k) = 1

(* C4: in both scripts the final upcoming sequence is non-decreasing and   *)
(* the final past sequence non-increasing by start instant: the lists      *)
(* fetch_events returns, and the order in which generate_html_includes     *)
(* writes the events.                                                      *)
C4_OrderedByInstant ==
    /\ FetchEventsReturned
          => NonDecreasing(Ids(upcoming)) /\ NonIncreasing(Ids(past))
    /\ FragmentsWritten
          => /\ NonDecreasing(files["events-upcoming.html"].events)
             /\ NonIncreasing(files["events-past.html"].events)

(* C5: in both scripts, two events with equal start keys are in their      *)
(* fetch order in upcoming and in the most-recent-first past sequence.     *)
C5_Stable ==
    /\ FetchEventsReturned
          => TiesInFetchOrder(Ids(upcoming)) /\ TiesInFetchOrder(Ids(past))
    /\ FragmentsWritten
          => /\ TiesInFetchOrder(files["events-upcoming.html"].events)
             /\ TiesInFetchOrder(files["events-past.html"].events)

(* C7: process_event never raises: no run of events-fetcher.py ends in the *)
(* loop of fetch_events because normalizing one record raised.             *)
C7_ProcessEventTotal == raisedIn # "process_event"

(* C8: in a run whose API key (or, for fetch-events.py, calendar id) is    *)
(* absent or empty, no HTTP request is issued, no file is written, and the *)
(* only step the run takes is the exit with a non-zero code.               *)
ConfigMissing ==
    \/ script = "events-fetcher" /\ API_KEY \in {"None", ""}
    \/ script = "fetch-events" /\ (API_KEY = "" \/ CALENDAR_ID = "")

C8_ConfigBeforeNetwork ==
    ConfigMissing
        => /\ httpRequests = 0
           /\ NothingWritten
           /\ pc \in {"start", "exited"}
           /\ pc = "exited" => exitCode > 0

C8_Witness ==
    /\ script = "fetch-events" /\ API_KEY = "key" /\ CALENDAR_ID = ""
    /\ pc = "exited" /\ exitCode = 1 /\ httpRequests = 0

(* C9: in a run whose HTTP request failed (error status or network error)  *)
(* the run has ended with a non-zero exit code and no output file was      *)
(* written.                                                                *)
FetchFailed == httpRequests > 0 /\ ~fetched

C9_FailedFetchWritesNothing ==
    FetchFailed => (pc = "exited" /\ exitCode > 0 /\ NothingWritten)

C9_Witness ==
    /\ script = "events-fetcher" /\ httpRequests = 1 /\ ~fetched
    /\ pc = "exited" /\ raisedIn = "http_error"

(* C6: the result of clean_description holds no tag, opening or closing,   *)
(* in any letter case, whose name is outside the allow-list, and is what   *)
(* is left of the decoded description, in order.                           *)
RECURSIVE IsSubsequence(_, _)
IsSubsequence(a, b) ==
    IF a = <<>> THEN TRUE
    ELSE IF b = <<>> THEN FALSE
    ELSE IF Head(a) = Head(b) THEN IsSubsequence(Tail(a), Tail(b))
    ELSE IsSubsequence(a, Tail(b))

\* Reading s from index p as markup, tag after tag, meets a tag of a name
\* outside the allow-list.
RECURSIVE HasDisallowedTag(_, _)
HasDisallowedTag(s, p) ==
    IF p > Len(s) THEN FALSE
    ELSE IF TagAt(s, p).m
    THEN lower(TagAt(s, p).name) \notin allowed_tags \/ HasDisallowedTag(s, TagAt(s, p).end + 1)
    ELSE HasDisallowedTag(s, p + 1)

C6_OnlyAllowedTagsRemain ==
    (fn = "clean_description" /\ ret.done /\ arg.t = "str")
        => /\ ~HasDisallowedTag(ret.value, 1)
           /\ IsSubsequence(ret.value, decode(arg.v))

(* C10: generate_event_html writes the summary and the location with each  *)
(* of & < > " ' replaced by its entity, and writes the description as it   *)
(* is (newlines as <br>), its tags as markup.                              *)
Entity(c) ==
    CASE c = "&" -> <<"&", "a", "m", "p", ";">>
      [] c = "<" -> <<"&", "l", "t", ";">>
      [] c = ">" -> <<"&", "g", "t", ";">>
      [] c = "\"" -> <<"&", "q", "u", "o", "t", ";">>
      [] c = "'" -> <<"&", "#", "3", "9", ";">>
      [] OTHER -> <<c>>

Escaped(text) == Flatten([k \in 1..Len(text) |-> Entity(text[k])])

Contains(s, sub) == \E p \in 1..Len(s) : StartsWith(s, p, sub)

C10_EscapesAllButDescription ==
    (fn = "generate_event_html" /\ ret.done /\ ~ret.value.raised)
        => /\ Contains(ret.value.html,
                       <<"    <h3>">>
                       \o Escaped(Get(arg.summary, JStr(<<"Untitled Event">>)).v)
                       \o <<"</h3>\n">>)
           /\ Truthy(arg.location)
                 => Contains(ret.value.html,
                             <<"    <p><strong>Location:</strong> ">>
                             \o Escaped(arg.location.v) \o <<"</p>\n">>)
           /\ Truthy(arg.description)
                 => Contains(ret.value.html,
                             <<"    <div class=\"event-description\">">>
                             \o Replace(arg.description.v, <<"\n">>, <<"<br>">>)
                             \o <<"</div>\n">>)

(* C12: for an event without htmlLink whose start and end parse, the dates *)
(* of the link made by make_add_to_calendar_link are the UTC instants of   *)
(* the start and of the end in compact zulu form, whatever the UTC offset  *)
(* of the input: 10:00 at +05:00 gives T05...Z.                            *)
ItemEnd(e) ==
    IF e.end.t = "obj" /\ e.end.dateTime.t = "str" THEN e.end.dateTime
    ELSE IF e.end.t = "obj" /\ e.end.date.t = "str" THEN e.end.date
    ELSE JNull

HasValidEnd(e) ==
    ItemEnd(e).t = "str" /\ (IsISODate(ItemEnd(e).v) \/ IsISODateTime(ItemEnd(e).v))

EndInstant(e) ==
    LET s == ItemEnd(e).v
    IN  IF IsISODate(s) THEN 24 * s[1]
        ELSE IF Len(s) = 4 THEN 24 * s[1] + s[3]
        ELSE IF s[4] = PLUS THEN 24 * s[1] + s[3] - s[5]
        ELSE 24 * s[1] + s[3] + s[5]

\* YYYYMMDDTHHMMSSZ of a UTC instant.
ZuluOf(instant) == <<instant \div 24, TEE, instant % 24, ZED>>

C12_DatesAreUTC ==
    (/\ fn = "make_add_to_calendar_link" /\ ret.done
     /\ ~Truthy(arg.htmlLink) /\ HasValidStart(arg) /\ HasValidEnd(arg))
        => /\ ret.value.kind = "template"
           /\ ret.value.dates = <<ZuluOf(StartInstant(arg)), ZuluOf(EndInstant(arg))>>

(* C13: for each event with a start and an end, timed or all-day, the      *)
(* block written by generate_event_html holds the title and a placeholder  *)
(* time element with the raw start and the raw end as data attributes; the *)
(* location block and the description block are there exactly when the     *)
(* field is not empty.                                                     *)
PlaceholderElement(start, end) ==
    <<"    <p><strong>Your Local Time:</strong> <span class=\"js-local-time\" data-start=\"">>
    \o RawText(start) \o <<"\" data-end=\"">> \o RawText(end)
    \o <<"\">Loading...</span></p>\n">>

C13_PlaceholderTimeElement ==
    (/\ fn = "generate_event_html" /\ ret.done /\ ~ret.value.raised
     /\ HasValidStart(arg) /\ HasValidEnd(arg))
        => /\ Contains(ret.value.html,
                       <<"    <h3>">>
                       \o Escaped(Get(arg.summary, JStr(<<"Untitled Event">>)).v)
                       \o <<"</h3>\n">>)
           /\ Contains(ret.value.html,
                       PlaceholderElement(ItemStart(arg).v, ItemEnd(arg).v))
           /\ Truthy(arg.location)
                 <=> Contains(ret.value.html, <<"    <p><strong>Location:</strong> ">>)
           /\ Truthy(arg.description)
                 <=> Contains(ret.value.html, <<"    <div class=\"event-description\">">>)

(* C15: a run of fetch-events.py writes all three of events.json,          *)
(* events-upcoming.html and events-past.html, or none of them, also when   *)
(* rendering an event raises after a successful fetch.                     *)
AllWritten == \A f \in FileNames : files[f].written

C15_AllOrNothing ==
    (script = "fetch-events" /\ pc = "exited") => (AllWritten \/ NothingWritten)

(* C14: generate_html_includes leaves the upcoming list and the past list  *)
(* it is given as they were, so two calls in a row with the same two lists *)
(* write the same events-past.html.                                        *)
C14_ListsUnchanged ==
    fn = "generate_html_includes"
        => /\ upcoming = arg.upcoming
           /\ past = arg.past
           /\ (Len(ret.value) >= 2 /\ ~ret.value[1].raised /\ ~ret.value[2].raised)
                 => ret.value[1].past_html = ret.value[2].past_html

(* C11: process_includes returns for every page and every _includes        *)
(* directory, with each include directive replaced by the content of the   *)
(* file of that name if there is one and by a comment naming the file if   *)
(* there is none, and with the directives of inserted content left as they *)
(* are.                                                                    *)
NotFoundMarker(name) == <<"<!-- Include file not found: ">> \o name \o <<" -->">>

IsDirective(chunk) ==
    \E n \in IncludeNames : chunk \in {Directive(n), TightDirective(n)}

NameOf(chunk) ==
    CHOOSE n \in IncludeNames : chunk \in {Directive(n), TightDirective(n)}

Expanded(chunk, fs) ==
    IF ~IsDirective(chunk) THEN chunk
    ELSE IF fs[NameOf(chunk)].kind = "file" THEN fs[NameOf(chunk)].content
    ELSE NotFoundMarker(NameOf(chunk))

C11_SinglePassIncludes ==
    (fn = "process_includes" /\ ret.done)
        => /\ ~ret.value.raised
           /\ ret.value.value =
                  Flatten([k \in 1..Len(arg.chunks) |-> Expanded(arg.chunks[k], arg.fs)])

====
